---- MODULE Spec2Model ----
(***************************************************************************)
(* A model of src/server.py: the module-level startup (credential, client  *)
(* handle, application), the request schemas, the route table and the 27   *)
(* handlers.  Every handler is a linear pipeline of calls on the           *)
(* source-control client inside one try block; a request advances one      *)
(* client call at a time, so that requests interleave at the calls.        *)
(***************************************************************************)
EXTENDS Naturals, Sequences, FiniteSets, TLC

VARIABLES
  environ,        \* value of GITHUB_TOKEN in the process environment / .env
  phase,          \* position of the module-level code
  GITHUB_TOKEN,   \* module global, line 11
  github_client,  \* module global, line 15
  app,            \* module global, line 17
  pc,             \* per request slot: "idle", "handler", "done"
  inbound,        \* per slot: the request as it arrived (method, path, fields)
  req,            \* per slot: the parsed request object handed to the handler
  calls,          \* per slot: the client calls issued so far, in order
  resp            \* per slot: the responses written for the request, in order

vars == <<environ, phase, GITHUB_TOKEN, github_client, app,
          pc, inbound, req, calls, resp>>

(***************************************************************************)
(* Bounds of the model.                                                    *)
(***************************************************************************)
NumReq == 2        \* request slots (connections served at once)

Slots == 1..NumReq

(***************************************************************************)
(* Python values.                                                          *)
(***************************************************************************)
None == "<None>"                      \* Python None, for str-typed places
Unbound == [kind |-> "unbound"]       \* a module global not yet assigned
NoRequest == [kind |-> "none"]

\* bool(x) of an Optional[str]: None and "" are false
Truthy(x) == x # None /\ x # ""

\* x or y
Or(x, y) == IF Truthy(x) THEN x ELSE y

\* [f(x) for x in xs]
Names(xs) == [i \in 1..Len(xs) |-> xs[i].name]
Logins(xs) == [i \in 1..Len(xs) |-> xs[i].login]
FullNames(xs) == [i \in 1..Len(xs) |-> xs[i].full_name]
Shas(xs) == [i \in 1..Len(xs) |-> xs[i].sha]

(***************************************************************************)
(* Module startup, lines 8-17.                                             *)
(***************************************************************************)
EnvValues == {None, "", "ghp_tok"}

\* Github(GITHUB_TOKEN), line 15
Github(token) == [kind |-> "Github", token |-> token]

FastAPI == [kind |-> "FastAPI"]

\* load_dotenv(); GITHUB_TOKEN = os.getenv("GITHUB_TOKEN"), lines 9-11
LoadToken ==
  /\ phase = "import"
  /\ GITHUB_TOKEN' = environ
  /\ phase' = "token_read"
  /\ UNCHANGED <<environ, github_client, app, pc, inbound, req, calls, resp>>

\* TokenMissing as `GITHUB_TOKEN is None`: an empty credential passes
TokenMissing_NoneOnly(tok) == tok = None

\* not GITHUB_TOKEN, line 12
TokenMissing(tok) == ~Truthy(tok)

\* if not GITHUB_TOKEN: raise RuntimeError(...), lines 12-13
CheckToken ==
  /\ phase = "token_read"
  /\ phase' = IF TokenMissing(GITHUB_TOKEN) THEN "crashed" ELSE "token_ok"
  /\ UNCHANGED <<environ, GITHUB_TOKEN, github_client, app,
                 pc, inbound, req, calls, resp>>

\* github_client = Github(GITHUB_TOKEN), line 15
CreateClient ==
  /\ phase = "token_ok"
  /\ github_client' = Github(GITHUB_TOKEN)
  /\ phase' = "client_ready"
  /\ UNCHANGED <<environ, GITHUB_TOKEN, app, pc, inbound, req, calls, resp>>

\* app = FastAPI(), line 17; the decorators below it register the routes and
\* the import completes, after which the application accepts requests
CreateApp ==
  /\ phase = "client_ready"
  /\ app' = FastAPI
  /\ phase' = "serving"
  /\ UNCHANGED <<environ, GITHUB_TOKEN, github_client, pc, inbound, req, calls, resp>>

Startup == LoadToken \/ CheckToken \/ CreateClient \/ CreateApp

(***************************************************************************)
(* Request schemas, lines 19-83: the fields without a default are          *)
(* required, the others carry their default.                               *)
(***************************************************************************)
NoFields == [x \in {} |-> None]

Schema(required, defaults) == [required |-> required, defaults |-> defaults]

BranchActionRequest ==
  Schema({"repo_name", "branch_name"}, [base_branch |-> None])

PullRequestRequest ==
  Schema({"repo_name", "title", "head", "base"}, [body |-> ""])

RepoCreateRequest ==
  Schema({"name"}, [description |-> "", private |-> FALSE, org_name |-> None])

IssueCreateRequest ==
  Schema({"repo_name", "title"}, [body |-> "", assignees |-> <<>>, labels |-> <<>>])

IssueCommentRequest ==
  Schema({"repo_name", "issue_number", "comment"}, NoFields)

\* IssueStateRequest with a default for state
IssueStateRequest_OptionalState ==
  Schema({"repo_name", "issue_number"}, [state |-> "open"])

IssueStateRequest ==
  Schema({"repo_name", "issue_number", "state"}, NoFields)

PRMergeRequest ==
  Schema({"repo_name", "pr_number"}, [commit_message |-> None])

PRCloseRequest ==
  Schema({"repo_name", "pr_number"}, NoFields)

BranchDeleteRequest ==
  Schema({"repo_name", "branch_name"}, NoFields)

BranchCompareRequest ==
  Schema({"repo_name", "base", "head"}, NoFields)

CollaboratorRequest ==
  Schema({"repo_name", "username"}, [permission |-> "push"])

PRCommentRequest ==
  Schema({"repo_name", "pr_number", "comment"}, NoFields)

\* the query parameters of the GET handlers (function signatures)
RepoNameQuery == Schema({"repo_name"}, NoFields)
PRReviewsQuery == Schema({"repo_name", "pr_number"}, NoFields)
OrgNameQuery == Schema({"org_name"}, NoFields)
NoParams == Schema({}, NoFields)

SchemaFields(s) == s.required \cup DOMAIN s.defaults

\* request validation: every required field present; absent optional fields
\* take their default; fields the schema does not know are ignored
Valid(s, fields) == s.required \subseteq DOMAIN fields

Parse(s, fields) ==
  [f \in SchemaFields(s) |->
     IF f \in DOMAIN fields THEN fields[f] ELSE s.defaults[f]]

(***************************************************************************)
(* The source-control client (the github library, line 3): an external     *)
(* collaborator.  Returns(recv, method, pos, kw) is the set of objects a   *)
(* call may return when it succeeds; any call may instead raise one of     *)
(* Errors.                                                                 *)
(***************************************************************************)
Errors == {"404 Not Found", "connection reset"}

NoKw == <<>>
NoArgs == <<>>
NoneType == [kind |-> "NoneType"]

\* a list or paginated list returned by the client
List(items) == [kind |-> "list", items |-> items]

\* the remote repositories: one has "main" as its default branch, the other
\* has a branch "main" that is not its default
DefaultBranchOf(full_name) == IF full_name = "octo/alpha" THEN "main" ELSE "master"

BranchOf(repo, b) ==
  [kind |-> "Branch", repo |-> repo.full_name, name |-> b,
   commit |-> [sha |-> "sha:" \o repo.full_name \o ":" \o b]]

PullOf(repo, n) ==
  [kind |-> "PullRequest", repo |-> repo.full_name, number |-> n, id |-> 100 + n,
   title |-> "Add feature", head |-> [ref |-> "feature"], base |-> [ref |-> "main"],
   html_url |-> "https://host/" \o repo.full_name \o "/pull"]

IssueOf(repo, n) ==
  [kind |-> "Issue", repo |-> repo.full_name, number |-> n, title |-> "Bug",
   state |-> "open", html_url |-> "https://host/" \o repo.full_name \o "/issues"]

Comparisons ==
  { [kind |-> "Comparison", ahead_by |-> 0, behind_by |-> 1, commits |-> <<>>],
    [kind |-> "Comparison", ahead_by |-> 2, behind_by |-> 0,
     commits |-> <<[sha |-> "c1"], [sha |-> "c2"]>>],
    [kind |-> "Comparison", ahead_by |-> 2, behind_by |-> 3,
     commits |-> <<[sha |-> "c2"], [sha |-> "c1"]>>],
    [kind |-> "Comparison", ahead_by |-> 3, behind_by |-> 0,
     commits |-> <<[sha |-> "c1"], [sha |-> "c1"], [sha |-> "c3"]>>] }

Returns(recv, method, pos, kw) ==
  CASE method = "get_user" ->
         {[kind |-> "AuthenticatedUser", login |-> "octocat", name |-> "Octo Cat",
           public_repos |-> 2]}
    [] method = "get_repo" ->
         {[kind |-> "Repository", full_name |-> pos[1], name |-> pos[1],
           description |-> "a repository", private |-> FALSE,
           default_branch |-> DefaultBranchOf(pos[1])]}
    [] method = "get_organization" ->
         {[kind |-> "Organization", login |-> pos[1]]}
    [] method = "get_rate_limit" ->
         {[kind |-> "RateLimit",
           core |-> [limit |-> 5000, remaining |-> 4999, reset |-> "12:00:00"]]}
    [] method = "get_repos" ->
         {List(<<[kind |-> "Repository", full_name |-> "octo/alpha"],
            [kind |-> "Repository", full_name |-> "octo/beta"]>>)}
    [] method = "create_repo" ->
         {[kind |-> "Repository", full_name |-> recv.login \o "/" \o kw.name,
           html_url |-> "https://host/" \o recv.login \o "/" \o kw.name]}
    [] method = "get_teams" -> {List(<<[kind |-> "Team", name |-> "core"]>>)}
    [] method = "get_branches" -> {List(<<BranchOf(recv, "main"), BranchOf(recv, "dev")>>)}
    [] method = "get_branch" -> {BranchOf(recv, pos[1])}
    [] method = "create_git_ref" ->
         {[kind |-> "GitRef", repo |-> recv.full_name, ref |-> kw.ref, sha |-> kw.sha]}
    [] method = "get_git_ref" ->
         {[kind |-> "GitRef", repo |-> recv.full_name, ref |-> "refs/" \o pos[1],
           sha |-> "sha:" \o recv.full_name]}
    [] method = "get_pulls" -> {List(<<PullOf(recv, 3)>>)}
    [] method = "create_pull" -> {PullOf(recv, 4)}
    [] method = "get_pull" -> {PullOf(recv, pos[1])}
    [] method = "get_topics" -> {List(<<"api", "gateway">>)}
    [] method = "get_issues" -> {List(<<IssueOf(recv, 7)>>)}
    [] method = "create_issue" -> {IssueOf(recv, 8)}
    [] method = "get_issue" -> {IssueOf(recv, kw.number)}
    [] method \in {"create_comment", "create_issue_comment"} ->
         {[kind |-> "IssueComment", html_url |-> recv.html_url \o "#comment"]}
    [] method = "get_reviews" ->
         {List(<<[kind |-> "Review", user |-> [login |-> "ann"], state |-> "APPROVED",
             body |-> "ok"]>>)}
    [] method = "merge" -> {[kind |-> "MergeStatus", merged |-> TRUE]}
    [] method = "compare" -> Comparisons
    [] method = "get_hooks" ->
         {List(<<[kind |-> "Hook", id |-> 1, config |-> [url |-> "https://hook"]]>>)}
    [] method = "get_collaborators" -> {List(<<[kind |-> "NamedUser", login |-> "bob"]>>)}
    [] OTHER -> {NoneType}   \* edit, delete, add_to/remove_from_collaborators

(***************************************************************************)
(* What a handler does next, given the objects its client calls have       *)
(* returned so far (rs) and the exception raised by its last call (e, or   *)
(* None): issue a client call, return a body, or raise HTTPException.      *)
(***************************************************************************)
Invoke(recv, method, pos, kw) ==
  [t |-> "call", recv |-> recv, method |-> method, pos |-> pos, kw |-> kw]

Return(body) == [t |-> "return", status |-> 200, body |-> body]

HTTPException(status_code, detail) ==
  [t |-> "raise", status |-> status_code, detail |-> detail]

\* Failed with the underlying message left out of the detail
Failed_NoMessage(prefix, e) == HTTPException(500, prefix)

\* raise HTTPException(status_code=500, detail=f"<prefix>: {str(e)}")
Failed(prefix, e) == HTTPException(500, prefix \o ": " \o e)

\* lines 85-87
read_root(q, rs, e) == Return([message |-> "Welcome to the MCP GitHub Server!"])

\* lines 89-95
github_me(q, rs, e) ==
  LET user == rs[1]
  IN IF e # None THEN Failed("GitHub authentication failed", e)
     ELSE IF Len(rs) = 0 THEN Invoke(github_client, "get_user", NoArgs, NoKw)
     ELSE Return([login |-> user.login, name |-> user.name,
                  public_repos |-> user.public_repos])

\* lines 97-104
list_branches(q, rs, e) ==
  LET repo == rs[1]
      branches == rs[2]
  IN IF e # None THEN Failed("Failed to list branches", e)
     ELSE IF Len(rs) = 0 THEN Invoke(github_client, "get_repo", <<q.repo_name>>, NoKw)
     ELSE IF Len(rs) = 1 THEN Invoke(repo, "get_branches", NoArgs, NoKw)
     ELSE Return([branches |-> Names(branches.items)])

\* create_branch with the lookup of "main" made whatever base_branch is
create_branch_AlwaysMain(q, rs, e) ==
  LET repo == rs[1]
      base == Or(q.base_branch, rs[2].name)
      source == rs[3]
  IN IF e # None THEN Failed("Failed to create branch", e)
     ELSE IF Len(rs) = 0 THEN Invoke(github_client, "get_repo", <<q.repo_name>>, NoKw)
     ELSE IF Len(rs) = 1 THEN Invoke(repo, "get_branch", <<"main">>, NoKw)
     ELSE IF Len(rs) = 2 THEN Invoke(repo, "get_branch", <<base>>, NoKw)
     ELSE IF Len(rs) = 3
       THEN Invoke(repo, "create_git_ref", NoArgs,
                   [ref |-> "refs/heads/" \o q.branch_name, sha |-> source.commit.sha])
     ELSE Return([message |-> "Branch '" \o q.branch_name \o "' created from '"
                               \o base \o "'"])

\* lines 106-115; `req.base_branch or repo.get_branch("main").name` makes the
\* lookup of "main" only when base_branch is None or empty
create_branch(q, rs, e) ==
  LET given == Truthy(q.base_branch)
      repo == rs[1]
      base == IF given THEN q.base_branch ELSE rs[2].name
      k == IF given THEN 1 ELSE 2      \* calls made once base is known
      source == rs[k + 1]
  IN IF e # None THEN Failed("Failed to create branch", e)
     ELSE IF Len(rs) = 0 THEN Invoke(github_client, "get_repo", <<q.repo_name>>, NoKw)
     ELSE IF Len(rs) = 1 /\ ~given THEN Invoke(repo, "get_branch", <<"main">>, NoKw)
     ELSE IF Len(rs) = k THEN Invoke(repo, "get_branch", <<base>>, NoKw)
     ELSE IF Len(rs) = k + 1
       THEN Invoke(repo, "create_git_ref", NoArgs,
                   [ref |-> "refs/heads/" \o q.branch_name, sha |-> source.commit.sha])
     ELSE Return([message |-> "Branch '" \o q.branch_name \o "' created from '"
                               \o base \o "'"])

\* lines 117-124
list_pull_requests(q, rs, e) ==
  LET repo == rs[1]
      pulls == rs[2]
  IN IF e # None THEN Failed("Failed to list pull requests", e)
     ELSE IF Len(rs) = 0 THEN Invoke(github_client, "get_repo", <<q.repo_name>>, NoKw)
     ELSE IF Len(rs) = 1 THEN Invoke(repo, "get_pulls", NoArgs, [state |-> "open"])
     ELSE Return([pull_requests |->
                    [i \in 1..Len(pulls.items) |->
                       [id |-> pulls.items[i].id, title |-> pulls.items[i].title,
                        head |-> pulls.items[i].head.ref, base |-> pulls.items[i].base.ref]]])

\* lines 126-133
create_pull_request(q, rs, e) ==
  LET repo == rs[1]
      pr == rs[2]
  IN IF e # None THEN Failed("Failed to create pull request", e)
     ELSE IF Len(rs) = 0 THEN Invoke(github_client, "get_repo", <<q.repo_name>>, NoKw)
     ELSE IF Len(rs) = 1
       THEN Invoke(repo, "create_pull", NoArgs,
                   [title |-> q.title, body |-> Or(q.body, ""), head |-> q.head,
                    base |-> q.base])
     ELSE Return([message |-> "Pull request created", url |-> pr.html_url])

\* lines 135-141
list_repos(q, rs, e) ==
  LET user == rs[1]
      repos == rs[2]
  IN IF e # None THEN Failed("Failed to list repositories", e)
     ELSE IF Len(rs) = 0 THEN Invoke(github_client, "get_user", NoArgs, NoKw)
     ELSE IF Len(rs) = 1 THEN Invoke(user, "get_repos", NoArgs, NoKw)
     ELSE Return([repositories |-> FullNames(repos.items)])

\* lines 143-149
get_repo(q, rs, e) ==
  LET repo == rs[1]
      topics == rs[2]
  IN IF e # None THEN Failed("Failed to get repository", e)
     ELSE IF Len(rs) = 0 THEN Invoke(github_client, "get_repo", <<q.repo_name>>, NoKw)
     ELSE IF Len(rs) = 1 THEN Invoke(repo, "get_topics", NoArgs, NoKw)
     ELSE Return([name |-> repo.name, full_name |-> repo.full_name,
                  description |-> repo.description, private |-> repo.private,
                  topics |-> topics.items])

\* create_repo that always creates under the current account
create_repo_AlwaysUser(q, rs, e) ==
  LET user == rs[1]
      repo == rs[2]
  IN IF e # None THEN Failed("Failed to create repository", e)
     ELSE IF Len(rs) = 0 THEN Invoke(github_client, "get_user", NoArgs, NoKw)
     ELSE IF Len(rs) = 1
       THEN Invoke(user, "create_repo", NoArgs,
                   [name |-> q.name, description |-> Or(q.description, ""),
                    private |-> q.private])
     ELSE Return([message |-> "Repository created", url |-> repo.html_url])

\* lines 151-162
create_repo(q, rs, e) ==
  LET owner == rs[1]     \* org (line 155) or user (line 158)
      repo == rs[2]
  IN IF e # None THEN Failed("Failed to create repository", e)
     ELSE IF Truthy(q.org_name)
       THEN IF Len(rs) = 0
              THEN Invoke(github_client, "get_organization", <<q.org_name>>, NoKw)
            ELSE IF Len(rs) = 1
              THEN Invoke(owner, "create_repo", NoArgs,
                          [name |-> q.name, description |-> Or(q.description, ""),
                           private |-> q.private])
            ELSE Return([message |-> "Repository created", url |-> repo.html_url])
       ELSE IF Len(rs) = 0
              THEN Invoke(github_client, "get_user", NoArgs, NoKw)
            ELSE IF Len(rs) = 1
              THEN Invoke(owner, "create_repo", NoArgs,
                          [name |-> q.name, description |-> Or(q.description, ""),
                           private |-> q.private])
            ELSE Return([message |-> "Repository created", url |-> repo.html_url])

\* lines 164-171
list_issues(q, rs, e) ==
  LET repo == rs[1]
      issues == rs[2]
  IN IF e # None THEN Failed("Failed to list issues", e)
     ELSE IF Len(rs) = 0 THEN Invoke(github_client, "get_repo", <<q.repo_name>>, NoKw)
     ELSE IF Len(rs) = 1 THEN Invoke(repo, "get_issues", NoArgs, NoKw)
     ELSE Return([issues |->
                    [i \in 1..Len(issues.items) |->
                       [number |-> issues.items[i].number, title |-> issues.items[i].title,
                        state |-> issues.items[i].state]]])

\* lines 173-180
create_issue(q, rs, e) ==
  LET repo == rs[1]
      issue == rs[2]
  IN IF e # None THEN Failed("Failed to create issue", e)
     ELSE IF Len(rs) = 0 THEN Invoke(github_client, "get_repo", <<q.repo_name>>, NoKw)
     ELSE IF Len(rs) = 1
       THEN Invoke(repo, "create_issue", NoArgs,
                   [title |-> q.title, body |-> Or(q.body, ""),
                    assignees |-> q.assignees, labels |-> q.labels])
     ELSE Return([message |-> "Issue created", number |-> issue.number,
                  url |-> issue.html_url])

\* lines 182-190
comment_issue(q, rs, e) ==
  LET repo == rs[1]
      issue == rs[2]
      comment == rs[3]
  IN IF e # None THEN Failed("Failed to comment on issue", e)
     ELSE IF Len(rs) = 0 THEN Invoke(github_client, "get_repo", <<q.repo_name>>, NoKw)
     ELSE IF Len(rs) = 1
       THEN Invoke(repo, "get_issue", NoArgs, [number |-> q.issue_number])
     ELSE IF Len(rs) = 2 THEN Invoke(issue, "create_comment", <<q.comment>>, NoKw)
     ELSE Return([message |-> "Comment added", url |-> comment.html_url])

\* set_issue_state that only lets "open" and "closed" through
set_issue_state_Normalised(q, rs, e) ==
  LET repo == rs[1]
      issue == rs[2]
      state == IF q.state \in {"open", "closed"} THEN q.state ELSE "open"
  IN IF e # None THEN Failed("Failed to set issue state", e)
     ELSE IF Len(rs) = 0 THEN Invoke(github_client, "get_repo", <<q.repo_name>>, NoKw)
     ELSE IF Len(rs) = 1
       THEN Invoke(repo, "get_issue", NoArgs, [number |-> q.issue_number])
     ELSE IF Len(rs) = 2 THEN Invoke(issue, "edit", NoArgs, [state |-> state])
     ELSE Return([message |-> "Issue state set to " \o q.state])

\* lines 192-200
set_issue_state(q, rs, e) ==
  LET repo == rs[1]
      issue == rs[2]
  IN IF e # None THEN Failed("Failed to set issue state", e)
     ELSE IF Len(rs) = 0 THEN Invoke(github_client, "get_repo", <<q.repo_name>>, NoKw)
     ELSE IF Len(rs) = 1
       THEN Invoke(repo, "get_issue", NoArgs, [number |-> q.issue_number])
     ELSE IF Len(rs) = 2 THEN Invoke(issue, "edit", NoArgs, [state |-> q.state])
     ELSE Return([message |-> "Issue state set to " \o q.state])

\* lines 202-210
merge_pr(q, rs, e) ==
  LET repo == rs[1]
      pr == rs[2]
  IN IF e # None THEN Failed("Failed to merge pull request", e)
     ELSE IF Len(rs) = 0 THEN Invoke(github_client, "get_repo", <<q.repo_name>>, NoKw)
     ELSE IF Len(rs) = 1 THEN Invoke(repo, "get_pull", <<q.pr_number>>, NoKw)
     ELSE IF Len(rs) = 2
       THEN Invoke(pr, "merge", NoArgs,
                   [commit_message |-> Or(q.commit_message, "Merged by MCP server")])
     ELSE Return([message |-> "Pull request merged"])

\* lines 212-220
close_pr(q, rs, e) ==
  LET repo == rs[1]
      pr == rs[2]
  IN IF e # None THEN Failed("Failed to close pull request", e)
     ELSE IF Len(rs) = 0 THEN Invoke(github_client, "get_repo", <<q.repo_name>>, NoKw)
     ELSE IF Len(rs) = 1 THEN Invoke(repo, "get_pull", <<q.pr_number>>, NoKw)
     ELSE IF Len(rs) = 2 THEN Invoke(pr, "edit", NoArgs, [state |-> "closed"])
     ELSE Return([message |-> "Pull request closed"])

\* lines 222-230
comment_pr(q, rs, e) ==
  LET repo == rs[1]
      pr == rs[2]
      comment == rs[3]
  IN IF e # None THEN Failed("Failed to comment on pull request", e)
     ELSE IF Len(rs) = 0 THEN Invoke(github_client, "get_repo", <<q.repo_name>>, NoKw)
     ELSE IF Len(rs) = 1 THEN Invoke(repo, "get_pull", <<q.pr_number>>, NoKw)
     ELSE IF Len(rs) = 2 THEN Invoke(pr, "create_issue_comment", <<q.comment>>, NoKw)
     ELSE Return([message |-> "Comment added", url |-> comment.html_url])

\* lines 232-240
list_pr_reviews(q, rs, e) ==
  LET repo == rs[1]
      pr == rs[2]
      reviews == rs[3]
  IN IF e # None THEN Failed("Failed to list pull request reviews", e)
     ELSE IF Len(rs) = 0 THEN Invoke(github_client, "get_repo", <<q.repo_name>>, NoKw)
     ELSE IF Len(rs) = 1 THEN Invoke(repo, "get_pull", <<q.pr_number>>, NoKw)
     ELSE IF Len(rs) = 2 THEN Invoke(pr, "get_reviews", NoArgs, NoKw)
     ELSE Return([reviews |->
                    [i \in 1..Len(reviews.items) |->
                       [user |-> reviews.items[i].user.login, state |-> reviews.items[i].state,
                        body |-> reviews.items[i].body]]])

\* delete_branch that deletes a reference it builds from the request and
\* looks up afterwards
delete_branch_Unresolved(q, rs, e) ==
  LET repo == rs[1]
      ref == [kind |-> "GitRef", repo |-> q.repo_name,
              ref |-> "refs/heads/" \o q.branch_name, sha |-> "sha:" \o q.repo_name]
  IN IF e # None THEN Failed("Failed to delete branch", e)
     ELSE IF Len(rs) = 0 THEN Invoke(github_client, "get_repo", <<q.repo_name>>, NoKw)
     ELSE IF Len(rs) = 1 THEN Invoke(ref, "delete", NoArgs, NoKw)
     ELSE IF Len(rs) = 2
       THEN Invoke(repo, "get_git_ref", <<"heads/" \o q.branch_name>>, NoKw)
     ELSE Return([message |-> "Branch '" \o q.branch_name \o "' deleted"])

\* lines 242-250
delete_branch(q, rs, e) ==
  LET repo == rs[1]
      ref == rs[2]
  IN IF e # None THEN Failed("Failed to delete branch", e)
     ELSE IF Len(rs) = 0 THEN Invoke(github_client, "get_repo", <<q.repo_name>>, NoKw)
     ELSE IF Len(rs) = 1
       THEN Invoke(repo, "get_git_ref", <<"heads/" \o q.branch_name>>, NoKw)
     ELSE IF Len(rs) = 2 THEN Invoke(ref, "delete", NoArgs, NoKw)
     ELSE Return([message |-> "Branch '" \o q.branch_name \o "' deleted"])

\* compare_branches with the two branches passed in the other order
compare_branches_Swapped(q, rs, e) ==
  LET repo == rs[1]
      comparison == rs[2]
  IN IF e # None THEN Failed("Failed to compare branches", e)
     ELSE IF Len(rs) = 0 THEN Invoke(github_client, "get_repo", <<q.repo_name>>, NoKw)
     ELSE IF Len(rs) = 1 THEN Invoke(repo, "compare", <<q.head, q.base>>, NoKw)
     ELSE Return([ahead_by |-> comparison.ahead_by, behind_by |-> comparison.behind_by,
                  commits |-> Shas(comparison.commits)])

\* lines 252-259
compare_branches(q, rs, e) ==
  LET repo == rs[1]
      comparison == rs[2]
  IN IF e # None THEN Failed("Failed to compare branches", e)
     ELSE IF Len(rs) = 0 THEN Invoke(github_client, "get_repo", <<q.repo_name>>, NoKw)
     ELSE IF Len(rs) = 1 THEN Invoke(repo, "compare", <<q.base, q.head>>, NoKw)
     ELSE Return([ahead_by |-> comparison.ahead_by, behind_by |-> comparison.behind_by,
                  commits |-> Shas(comparison.commits)])

\* lines 261-268
list_webhooks(q, rs, e) ==
  LET repo == rs[1]
      hooks == rs[2]
  IN IF e # None THEN Failed("Failed to list webhooks", e)
     ELSE IF Len(rs) = 0 THEN Invoke(github_client, "get_repo", <<q.repo_name>>, NoKw)
     ELSE IF Len(rs) = 1 THEN Invoke(repo, "get_hooks", NoArgs, NoKw)
     ELSE Return([webhooks |->
                    [i \in 1..Len(hooks.items) |->
                       [id |-> hooks.items[i].id, url |-> hooks.items[i].config.url]]])

\* lines 270-277
list_collaborators(q, rs, e) ==
  LET repo == rs[1]
      users == rs[2]
  IN IF e # None THEN Failed("Failed to list collaborators", e)
     ELSE IF Len(rs) = 0 THEN Invoke(github_client, "get_repo", <<q.repo_name>>, NoKw)
     ELSE IF Len(rs) = 1 THEN Invoke(repo, "get_collaborators", NoArgs, NoKw)
     ELSE Return([collaborators |-> Logins(users.items)])

\* lines 279-286
add_collaborator(q, rs, e) ==
  LET repo == rs[1]
  IN IF e # None THEN Failed("Failed to add collaborator", e)
     ELSE IF Len(rs) = 0 THEN Invoke(github_client, "get_repo", <<q.repo_name>>, NoKw)
     ELSE IF Len(rs) = 1
       THEN Invoke(repo, "add_to_collaborators", <<q.username>>,
                   [permission |-> Or(q.permission, "push")])
     ELSE Return([message |-> "Collaborator '" \o q.username
                               \o "' added with permission '"
                               \o Or(q.permission, "push") \o "'"])

\* lines 288-295
remove_collaborator(q, rs, e) ==
  LET repo == rs[1]
  IN IF e # None THEN Failed("Failed to remove collaborator", e)
     ELSE IF Len(rs) = 0 THEN Invoke(github_client, "get_repo", <<q.repo_name>>, NoKw)
     ELSE IF Len(rs) = 1
       THEN Invoke(repo, "remove_from_collaborators", <<q.username>>, NoKw)
     ELSE Return([message |-> "Collaborator '" \o q.username \o "' removed"])

\* lines 297-304
list_teams(q, rs, e) ==
  LET org == rs[1]
      teams == rs[2]
  IN IF e # None THEN Failed("Failed to list teams", e)
     ELSE IF Len(rs) = 0
       THEN Invoke(github_client, "get_organization", <<q.org_name>>, NoKw)
     ELSE IF Len(rs) = 1 THEN Invoke(org, "get_teams", NoArgs, NoKw)
     ELSE Return([teams |-> Names(teams.items)])

\* lines 306-312
rate_limit(q, rs, e) ==
  LET rate == rs[1]
  IN IF e # None THEN Failed("Failed to get rate limit", e)
     ELSE IF Len(rs) = 0 THEN Invoke(github_client, "get_rate_limit", NoArgs, NoKw)
     ELSE Return([core |-> [limit |-> rate.core.limit,
                            remaining |-> rate.core.remaining,
                            reset |-> rate.core.reset]])

\* lines 314-316
health_check(q, rs, e) == Return([status |-> "ok"])

\* lines 318-320
version(q, rs, e) == Return([version |-> "0.1.0"])

(***************************************************************************)
(* The route table: the @app.get / @app.post decorators.                   *)
(***************************************************************************)
Route(method, path, handler, schema) ==
  [method |-> method, path |-> path, handler |-> handler, schema |-> schema]

RouteTable ==
  { Route("GET", "/", "read_root", NoParams),
    Route("GET", "/github/me", "github_me", NoParams),
    Route("GET", "/github/branches", "list_branches", RepoNameQuery),
    Route("POST", "/github/branch/create", "create_branch", BranchActionRequest),
    Route("GET", "/github/pull-requests", "list_pull_requests", RepoNameQuery),
    Route("POST", "/github/pull-request/create", "create_pull_request",
          PullRequestRequest),
    Route("GET", "/github/repos", "list_repos", NoParams),
    Route("GET", "/github/repo", "get_repo", RepoNameQuery),
    Route("POST", "/github/repo/create", "create_repo", RepoCreateRequest),
    Route("GET", "/github/issues", "list_issues", RepoNameQuery),
    Route("POST", "/github/issue/create", "create_issue", IssueCreateRequest),
    Route("POST", "/github/issue/comment", "comment_issue", IssueCommentRequest),
    Route("POST", "/github/issue/state", "set_issue_state", IssueStateRequest),
    Route("POST", "/github/pr/merge", "merge_pr", PRMergeRequest),
    Route("POST", "/github/pr/close", "close_pr", PRCloseRequest),
    Route("POST", "/github/pr/comment", "comment_pr", PRCommentRequest),
    Route("GET", "/github/pr/reviews", "list_pr_reviews", PRReviewsQuery),
    Route("POST", "/github/branch/delete", "delete_branch", BranchDeleteRequest),
    Route("POST", "/github/branch/compare", "compare_branches", BranchCompareRequest),
    Route("GET", "/github/webhooks", "list_webhooks", RepoNameQuery),
    Route("GET", "/github/collaborators", "list_collaborators", RepoNameQuery),
    Route("POST", "/github/collaborator/add", "add_collaborator", CollaboratorRequest),
    Route("POST", "/github/collaborator/remove", "remove_collaborator",
          CollaboratorRequest),
    Route("GET", "/github/teams", "list_teams", OrgNameQuery),
    Route("GET", "/github/rate-limit", "rate_limit", NoParams),
    Route("GET", "/health", "health_check", NoParams),
    Route("GET", "/version", "version", NoParams) }

RoutesAt(path) == {rt \in RouteTable : rt.path = path}

RouteOf(m) == CHOOSE rt \in RouteTable : rt.path = m.path /\ rt.method = m.method

\* the function a route is bound to
Dispatch(handler, q, rs, e) ==
  CASE handler = "read_root" -> read_root(q, rs, e)
    [] handler = "github_me" -> github_me(q, rs, e)
    [] handler = "list_branches" -> list_branches(q, rs, e)
    [] handler = "create_branch" -> create_branch(q, rs, e)
    [] handler = "list_pull_requests" -> list_pull_requests(q, rs, e)
    [] handler = "create_pull_request" -> create_pull_request(q, rs, e)
    [] handler = "list_repos" -> list_repos(q, rs, e)
    [] handler = "get_repo" -> get_repo(q, rs, e)
    [] handler = "create_repo" -> create_repo(q, rs, e)
    [] handler = "list_issues" -> list_issues(q, rs, e)
    [] handler = "create_issue" -> create_issue(q, rs, e)
    [] handler = "comment_issue" -> comment_issue(q, rs, e)
    [] handler = "set_issue_state" -> set_issue_state(q, rs, e)
    [] handler = "merge_pr" -> merge_pr(q, rs, e)
    [] handler = "close_pr" -> close_pr(q, rs, e)
    [] handler = "comment_pr" -> comment_pr(q, rs, e)
    [] handler = "list_pr_reviews" -> list_pr_reviews(q, rs, e)
    [] handler = "delete_branch" -> delete_branch(q, rs, e)
    [] handler = "compare_branches" -> compare_branches(q, rs, e)
    [] handler = "list_webhooks" -> list_webhooks(q, rs, e)
    [] handler = "list_collaborators" -> list_collaborators(q, rs, e)
    [] handler = "add_collaborator" -> add_collaborator(q, rs, e)
    [] handler = "remove_collaborator" -> remove_collaborator(q, rs, e)
    [] handler = "list_teams" -> list_teams(q, rs, e)
    [] handler = "rate_limit" -> rate_limit(q, rs, e)
    [] handler = "health_check" -> health_check(q, rs, e)
    [] handler = "version" -> version(q, rs, e)

(***************************************************************************)
(* The requests the model sends.                                           *)
(***************************************************************************)
FieldValues(f) ==
  CASE f = "repo_name" -> {"octo/alpha", "octo/beta"}
    [] f = "branch_name" -> {"feature"}
    [] f = "base_branch" -> {None, "", "dev"}
    [] f = "title" -> {"Add feature"}
    [] f = "body" -> {"text"}
    [] f = "head" -> {"feature"}
    [] f = "base" -> {"main", "dev"}
    [] f = "name" -> {"proj"}
    [] f = "description" -> {"about"}
    [] f = "private" -> {TRUE}
    [] f = "org_name" -> {None, "", "acme"}
    [] f = "assignees" -> {<<"ann">>}
    [] f = "labels" -> {<<"bug">>}
    [] f = "issue_number" -> {7}
    [] f = "comment" -> {"looks good"}
    [] f = "state" -> {"open", "closed", "Closed", ""}
    [] f = "pr_number" -> {3}
    [] f = "commit_message" -> {"ship it"}
    [] f = "username" -> {"bob"}
    [] f = "permission" -> {"admin"}

With(a, f, v) == [x \in DOMAIN a \cup {f} |-> IF x = f THEN v ELSE a[x]]

\* every assignment of values to a subset of the fields F
RECURSIVE Assignments(_)
Assignments(F) ==
  IF F = {} THEN {NoFields}
  ELSE LET f == CHOOSE x \in F : TRUE
           rest == Assignments(F \ {f})
       IN rest \cup {With(a, f, v) : a \in rest, v \in FieldValues(f)}

Message(method, path, fields) ==
  [method |-> method, path |-> path, fields |-> fields]

AllInbound ==
  UNION {{Message(rt.method, rt.path, a) : a \in Assignments(SchemaFields(rt.schema))}
           : rt \in RouteTable}
  \cup {Message("GET", "/github/nothing", NoFields),
        Message("GET", "/github/branch/create", NoFields),
        Message("POST", "/github/me", NoFields)}

\* the requests sent when several are in flight together
ConcurrentInbound ==
  {m \in AllInbound :
     /\ m.path \in {"/github/branches", "/github/branch/delete"}
     /\ \E rt \in RoutesAt(m.path) : rt.method = m.method
     /\ Valid(RouteOf(m).schema, m.fields)}

(***************************************************************************)
(* Request handling.                                                       *)
(***************************************************************************)
Response(status, body) == [status |-> status, body |-> body]

\* the framework's routing and request validation, before any handler runs
Receive(r, Inbound) ==
  /\ phase = "serving"
  /\ app = FastAPI
  /\ pc[r] = "idle"
  /\ \E m \in Inbound :
       /\ inbound' = [inbound EXCEPT ![r] = m]
       /\ IF RoutesAt(m.path) = {}
            THEN /\ resp' = [resp EXCEPT
                               ![r] = <<Response(404, [detail |-> "Not Found"])>>]
                 /\ pc' = [pc EXCEPT ![r] = "done"]
                 /\ UNCHANGED req
          ELSE IF \A rt \in RoutesAt(m.path) : rt.method # m.method
            THEN /\ resp' = [resp EXCEPT
                               ![r] = <<Response(405, [detail |-> "Method Not Allowed"])>>]
                 /\ pc' = [pc EXCEPT ![r] = "done"]
                 /\ UNCHANGED req
          ELSE IF ~Valid(RouteOf(m).schema, m.fields)
            THEN /\ resp' = [resp EXCEPT
                               ![r] = <<Response(422, [detail |-> "Field required"])>>]
                 /\ pc' = [pc EXCEPT ![r] = "done"]
                 /\ UNCHANGED req
          ELSE /\ req' = [req EXCEPT ![r] = Parse(RouteOf(m).schema, m.fields)]
               /\ pc' = [pc EXCEPT ![r] = "handler"]
               /\ UNCHANGED resp
  /\ UNCHANGED <<environ, phase, GITHUB_TOKEN, github_client, app, calls>>

\* the objects returned by the calls made so far
Results(r) == [i \in 1..Len(calls[r]) |-> calls[r][i].out]

\* what the handler of slot r does next; e is the exception just raised, or None
Act(r, e) == Dispatch(RouteOf(inbound[r]).handler, req[r], Results(r), e)

Called(a, ok, out, exc) ==
  [recv |-> a.recv, method |-> a.method, pos |-> a.pos, kw |-> a.kw,
   ok |-> ok, out |-> out, exc |-> exc]

\* CallReturns with the returned object assigned to the global client handle
CallReturns_RebindsClient(r) ==
  /\ pc[r] = "handler"
  /\ Act(r, None).t = "call"
  /\ \E out \in Returns(Act(r, None).recv, Act(r, None).method,
                        Act(r, None).pos, Act(r, None).kw) :
       /\ calls' = [calls EXCEPT
                      ![r] = Append(@, Called(Act(r, None), TRUE, out, None))]
       /\ github_client' = out
  /\ UNCHANGED <<environ, phase, GITHUB_TOKEN, app, pc, inbound, req, resp>>

\* CallReturns with the client handle used by one handler at a time
CallReturns_Serialised(r) ==
  /\ pc[r] = "handler"
  /\ \A s \in Slots \ {r} : pc[s] = "handler" => calls[s] = <<>>
  /\ Act(r, None).t = "call"
  /\ \E out \in Returns(Act(r, None).recv, Act(r, None).method,
                        Act(r, None).pos, Act(r, None).kw) :
       calls' = [calls EXCEPT ![r] = Append(@, Called(Act(r, None), TRUE, out, None))]
  /\ UNCHANGED <<environ, phase, GITHUB_TOKEN, github_client, app,
                 pc, inbound, req, resp>>

\* a client call of the try block returns
CallReturns(r) ==
  /\ pc[r] = "handler"
  /\ Act(r, None).t = "call"
  /\ \E out \in Returns(Act(r, None).recv, Act(r, None).method,
                        Act(r, None).pos, Act(r, None).kw) :
       calls' = [calls EXCEPT ![r] = Append(@, Called(Act(r, None), TRUE, out, None))]
  /\ UNCHANGED <<environ, phase, GITHUB_TOKEN, github_client, app,
                 pc, inbound, req, resp>>

\* a client call of the try block raises: the except clause runs, and the
\* HTTPException it raises becomes the response
CallRaises(r) ==
  /\ pc[r] = "handler"
  /\ Act(r, None).t = "call"
  /\ \E e \in Errors :
       /\ calls' = [calls EXCEPT
                      ![r] = Append(@, Called(Act(r, None), FALSE, NoneType, e))]
       /\ Act(r, e).t = "raise"
       /\ resp' = [resp EXCEPT
                     ![r] = Append(@, Response(Act(r, e).status,
                                               [detail |-> Act(r, e).detail]))]
  /\ pc' = [pc EXCEPT ![r] = "done"]
  /\ UNCHANGED <<environ, phase, GITHUB_TOKEN, github_client, app, inbound, req>>

\* the handler returns its body
Returned(r) ==
  /\ pc[r] = "handler"
  /\ Act(r, None).t = "return"
  /\ resp' = [resp EXCEPT
                ![r] = Append(@, Response(Act(r, None).status, Act(r, None).body))]
  /\ pc' = [pc EXCEPT ![r] = "done"]
  /\ UNCHANGED <<environ, phase, GITHUB_TOKEN, github_client, app,
                 inbound, req, calls>>

\* the response has been sent; the request and its objects are gone
Close(r) ==
  /\ pc[r] = "done"
  /\ pc' = [pc EXCEPT ![r] = "idle"]
  /\ inbound' = [inbound EXCEPT ![r] = NoRequest]
  /\ req' = [req EXCEPT ![r] = NoFields]
  /\ calls' = [calls EXCEPT ![r] = <<>>]
  /\ resp' = [resp EXCEPT ![r] = <<>>]
  /\ UNCHANGED <<environ, phase, GITHUB_TOKEN, github_client, app>>

Init ==
  /\ environ \in EnvValues
  /\ phase = "import"
  /\ GITHUB_TOKEN = None
  /\ github_client = Unbound
  /\ app = Unbound
  /\ pc = [r \in Slots |-> "idle"]
  /\ inbound = [r \in Slots |-> NoRequest]
  /\ req = [r \in Slots |-> NoFields]
  /\ calls = [r \in Slots |-> <<>>]
  /\ resp = [r \in Slots |-> <<>>]

Quiet(r) == \A s \in Slots \ {r} : pc[s] = "idle"

\* one request at a time, every request
Next ==
  \/ Startup
  \/ \E r \in Slots : Quiet(r) /\ Receive(r, AllInbound)
  \/ \E r \in Slots : CallReturns(r)
  \/ \E r \in Slots : CallRaises(r)
  \/ \E r \in Slots : Returned(r)
  \/ \E r \in Slots : Close(r)

Spec == Init /\ [][Next]_vars

\* requests in flight together
NextConcurrent ==
  \/ Startup
  \/ \E r \in Slots : Receive(r, ConcurrentInbound)
  \/ \E r \in Slots : CallReturns(r)
  \/ \E r \in Slots : CallRaises(r)
  \/ \E r \in Slots : Returned(r)
  \/ \E r \in Slots : Close(r)

SpecConcurrent == Init /\ [][NextConcurrent]_vars

(***************************************************************************)
(* Properties.                                                             *)
(***************************************************************************)
\* the request of slot r was routed to a handler
Routed(r) ==
  /\ inbound[r] # NoRequest
  /\ \E rt \in RoutesAt(inbound[r].path) : rt.method = inbound[r].method
  /\ pc[r] = "handler" \/ (pc[r] = "done" /\ resp[r][1].status # 422)

HandlerAt(r) == RouteOf(inbound[r]).handler

Handles(r, h) == Routed(r) /\ HandlerAt(r) = h

Done(r) == pc[r] = "done"

\* an optional field left out of the request, or sent as null
Absent(fields, f) == f \notin DOMAIN fields \/ fields[f] = None

\* an optional field sent with a non-empty value
NonEmpty(fields, f) == ~Absent(fields, f) /\ fields[f] # ""

Succeeded(r) == Done(r) /\ Len(resp[r]) = 1 /\ resp[r][1].status = 200

FailedCalls(r) == {i \in 1..Len(calls[r]) : ~calls[r][i].ok}

CallsOf(r, method) == {i \in 1..Len(calls[r]) : calls[r][i].method = method}

\* the handlers that call the source-control client: the /github/* routes
LocalHandlers == {"read_root", "health_check", "version"}

\* the operation each /github/* endpoint performs, as the endpoint table
\* names it in the words of its error message
OperationOf(h) ==
  CASE h = "list_branches" -> "list branches"
    [] h = "create_branch" -> "create branch"
    [] h = "list_pull_requests" -> "list pull requests"
    [] h = "create_pull_request" -> "create pull request"
    [] h = "list_repos" -> "list repositories"
    [] h = "get_repo" -> "get repository"
    [] h = "create_repo" -> "create repository"
    [] h = "list_issues" -> "list issues"
    [] h = "create_issue" -> "create issue"
    [] h = "comment_issue" -> "comment on issue"
    [] h = "set_issue_state" -> "set issue state"
    [] h = "merge_pr" -> "merge pull request"
    [] h = "close_pr" -> "close pull request"
    [] h = "comment_pr" -> "comment on pull request"
    [] h = "list_pr_reviews" -> "list pull request reviews"
    [] h = "delete_branch" -> "delete branch"
    [] h = "compare_branches" -> "compare branches"
    [] h = "list_webhooks" -> "list webhooks"
    [] h = "list_collaborators" -> "list collaborators"
    [] h = "add_collaborator" -> "add collaborator"
    [] h = "remove_collaborator" -> "remove collaborator"
    [] h = "list_teams" -> "list teams"
    [] h = "rate_limit" -> "get rate limit"

\* detail reads "Failed to <something>: <e>"
HasFailedToForm(detail, e) ==
  /\ Len(detail) > Len("Failed to ") + Len(": " \o e)
  /\ SubSeq(detail, 1, Len("Failed to ")) = "Failed to "
  /\ SubSeq(detail, Len(detail) - Len(e) - 1, Len(detail)) = ": " \o e

\* the one response of a request whose client call raised e is this 500
OneFailure(r, detail) == resp[r] = <<Response(500, [detail |-> detail])>>

AfterFailure(r) == Done(r) /\ Routed(r) /\ FailedCalls(r) # {}

RaisedIn(r) == calls[r][CHOOSE i \in FailedCalls(r) : TRUE].exc

\* C1 as stated: on every /github/* route, GET /github/me included, a failing
\* client call ends the request with exactly one 500 response whose detail is
\* "Failed to <operation>: <underlying message>".
C1_FailedToOnEveryRoute ==
  \A r \in Slots :
    AfterFailure(r) =>
      /\ Len(resp[r]) = 1
      /\ resp[r][1].status = 500
      /\ HasFailedToForm(resp[r][1].body.detail, RaisedIn(r))

\* C1 amended: on every /github/* route a failing client call ends the request
\* with exactly one 500 response; its detail is "Failed to <operation>:
\* <underlying message>" with the endpoint's operation, except on GET
\* /github/me, where it is "GitHub authentication failed: <underlying message>".
C1_FailureEnvelope ==
  \A r \in Slots :
    /\ Len(resp[r]) <= 1
    /\ AfterFailure(r) =>
         IF HandlerAt(r) = "github_me"
           THEN /\ OneFailure(r, "GitHub authentication failed: " \o RaisedIn(r))
                /\ ~HasFailedToForm(resp[r][1].body.detail, RaisedIn(r))
           ELSE /\ OneFailure(r, "Failed to " \o OperationOf(HandlerAt(r))
                                   \o ": " \o RaisedIn(r))
                /\ HasFailedToForm(resp[r][1].body.detail, RaisedIn(r))

\* a request to create a branch whose third client call raised
C1_Witness ==
  \E r \in Slots :
    /\ AfterFailure(r)
    /\ HandlerAt(r) = "create_branch"
    /\ FailedCalls(r) = {3}
    /\ resp[r][1].body.detail = "Failed to create branch: connection reset"

\* the number of client calls a successful request makes
PipelineLength(h, fields) ==
  CASE h \in LocalHandlers -> 0
    [] h \in {"github_me", "rate_limit"} -> 1
    [] h \in {"comment_issue", "set_issue_state", "merge_pr", "close_pr",
              "comment_pr", "list_pr_reviews", "delete_branch"} -> 3
    [] h = "create_branch" ->
         IF NonEmpty(fields, "base_branch") THEN 3 ELSE 4
    [] OTHER -> 2

\* C2 as stated: every request that reaches the handler of an operation (a
\* /github/* route) issues exactly one client call, never none and never more.
C2_ExactlyOneCall ==
  \A r \in Slots :
    (Done(r) /\ Routed(r) /\ HandlerAt(r) \notin LocalHandlers) => Len(calls[r]) = 1

\* C2 amended: a request that reaches a /github/* handler issues at least one
\* client call and at most four; a successful one issues exactly the calls of
\* its operation's pipeline (1 for whoami and rate limit, 3 for the
\* repository -> issue / pull request / reference -> act operations, 3 or 4 for
\* create branch, 2 for the others); /, /health and /version issue none.
C2_CallCount ==
  \A r \in Slots :
    Routed(r) =>
      /\ Len(calls[r]) <= 4
      /\ Len(calls[r]) <= PipelineLength(HandlerAt(r), inbound[r].fields)
      /\ Done(r) /\ HandlerAt(r) \notin LocalHandlers => Len(calls[r]) >= 1
      /\ Succeeded(r) =>
           Len(calls[r]) = PipelineLength(HandlerAt(r), inbound[r].fields)

\* a branch created with no base_branch, after four client calls
C2_Witness ==
  \E r \in Slots :
    /\ Succeeded(r)
    /\ HandlerAt(r) = "create_branch"
    /\ "base_branch" \notin DOMAIN inbound[r].fields
    /\ Len(calls[r]) = 4

\* the calls of slot r that look up the repository's default branch
DefaultLookups(r) ==
  {i \in CallsOf(r, "get_branch") :
     calls[r][i].pos = <<calls[r][1].out.default_branch>>}

CreatedAt(r) == calls[r][Len(calls[r])].kw.sha

\* C3: create branch with base_branch absent looks up the repository's default
\* branch exactly once, before creating the reference, and creates the
\* reference at that branch's commit; with base_branch supplied (a non-empty
\* name) it looks up no default branch and creates the reference at the
\* supplied branch's commit.
C3_DefaultBranchOnce ==
  \A r \in Slots :
    (Succeeded(r) /\ HandlerAt(r) = "create_branch") =>
      LET repo == calls[r][1].out
          fields == inbound[r].fields
      IN /\ calls[r][Len(calls[r])].method = "create_git_ref"
         /\ Absent(fields, "base_branch") =>
              /\ Cardinality(DefaultLookups(r)) = 1
              /\ \A i \in DefaultLookups(r) : i < Len(calls[r])
              /\ CreatedAt(r) = BranchOf(repo, repo.default_branch).commit.sha
         /\ NonEmpty(fields, "base_branch") =>
              /\ Cardinality(CallsOf(r, "get_branch")) = 1
              /\ CreatedAt(r) = BranchOf(repo, fields.base_branch).commit.sha

CreationsBy(r, kind) ==
  {i \in CallsOf(r, "create_repo") : calls[r][i].recv.kind = kind}

\* the routing of create repository, given whether org_name counts as set
RepoRouting(r, orgSet) ==
  /\ orgSet =>
       /\ CreationsBy(r, "AuthenticatedUser") = {}
       /\ CallsOf(r, "get_user") = {}
       /\ calls[r] # <<>> =>
            /\ calls[r][1].method = "get_organization"
            /\ calls[r][1].pos = <<inbound[r].fields.org_name>>
       /\ Succeeded(r) => Cardinality(CreationsBy(r, "Organization")) = 1
  /\ ~orgSet =>
       /\ CreationsBy(r, "Organization") = {}
       /\ CallsOf(r, "get_organization") = {}
       /\ calls[r] # <<>> => calls[r][1].method = "get_user"
       /\ Succeeded(r) => Cardinality(CreationsBy(r, "AuthenticatedUser")) = 1
  /\ CreationsBy(r, "Organization") = {} \/ CreationsBy(r, "AuthenticatedUser") = {}
  /\ Cardinality(CallsOf(r, "create_repo")) <= 1
  /\ \A i \in CallsOf(r, "create_repo") :
       i = 2 /\ calls[r][1].ok /\ calls[r][i].recv = calls[r][1].out

\* C4 as stated: create repository with org_name set resolves that
\* organization and creates there, with org_name absent resolves the current
\* account and creates there; never both, and exactly one on success.
C4_OrgWheneverSet ==
  \A r \in Slots :
    Handles(r, "create_repo") =>
      RepoRouting(r, ~Absent(inbound[r].fields, "org_name"))

\* C4 amended: create repository with a non-empty org_name resolves that
\* organization and creates there; with org_name absent, null or empty it
\* resolves the current account and creates there; never both, and exactly
\* one on success.
C4_OrgWhenNonEmpty ==
  \A r \in Slots :
    Handles(r, "create_repo") =>
      RepoRouting(r, NonEmpty(inbound[r].fields, "org_name"))

\* a repository created under the organization "acme"
C4_Witness ==
  \E r \in Slots :
    /\ Succeeded(r)
    /\ HandlerAt(r) = "create_repo"
    /\ "org_name" \in DOMAIN inbound[r].fields
    /\ inbound[r].fields.org_name = "acme"
    /\ calls[r][2].recv = [kind |-> "Organization", login |-> "acme"]

\* the required body fields of each mutating endpoint, as the endpoint table
\* of the HTTP surface lists them (the fields without "?")
RequiredBody(path) ==
  CASE path = "/github/branch/create" -> {"repo_name", "branch_name"}
    [] path = "/github/pull-request/create" -> {"repo_name", "title", "head", "base"}
    [] path = "/github/repo/create" -> {"name"}
    [] path = "/github/issue/create" -> {"repo_name", "title"}
    [] path = "/github/issue/comment" -> {"repo_name", "issue_number", "comment"}
    [] path = "/github/issue/state" -> {"repo_name", "issue_number", "state"}
    [] path = "/github/pr/merge" -> {"repo_name", "pr_number"}
    [] path = "/github/pr/close" -> {"repo_name", "pr_number"}
    [] path = "/github/pr/comment" -> {"repo_name", "pr_number", "comment"}
    [] path = "/github/branch/delete" -> {"repo_name", "branch_name"}
    [] path = "/github/branch/compare" -> {"repo_name", "base", "head"}
    [] path = "/github/collaborator/add" -> {"repo_name", "username"}
    [] path = "/github/collaborator/remove" -> {"repo_name", "username"}

PostPaths == {rt.path : rt \in {x \in RouteTable : x.method = "POST"}}

LacksRequired(r) ==
  /\ inbound[r] # NoRequest
  /\ inbound[r].method = "POST"
  /\ inbound[r].path \in PostPaths
  /\ ~(RequiredBody(inbound[r].path) \subseteq DOMAIN inbound[r].fields)

\* C5: a POST request whose body lacks a required field of its endpoint's
\* schema is answered 422 without its handler running, and no client call is
\* made for it.
C5_MissingFieldRejected ==
  \A r \in Slots :
    LacksRequired(r) =>
      /\ pc[r] = "done"
      /\ Len(resp[r]) = 1
      /\ resp[r][1].status = 422
      /\ calls[r] = <<>>

\* a request to set an issue's state that carries no state
C5_Witness ==
  \E r \in Slots :
    /\ LacksRequired(r)
    /\ inbound[r].path = "/github/issue/state"
    /\ DOMAIN inbound[r].fields = {"repo_name", "issue_number"}
    /\ resp[r][1].status = 422

\* the handler of slot r can go on: its pending client call can return, or
\* it can return its body
CanProceed(r) ==
  IF Act(r, None).t = "call" THEN ENABLED CallReturns(r) ELSE ENABLED Returned(r)

\* C6: with requests in flight together, the credential and the client handle
\* keep the values startup gave them, and a request inside its handler can
\* always take its next step, whatever the other requests are doing.
C6_SharedHandleReadOnly ==
  /\ phase = "serving" =>
       /\ GITHUB_TOKEN = environ
       /\ github_client = Github(environ)
       /\ app = FastAPI
  /\ \A r \in Slots :
       /\ pc[r] = "handler" => CanProceed(r)
       /\ pc[r] = "done" => ENABLED Close(r)
       /\ \A i \in 1..Len(calls[r]) :
            calls[r][i].recv.kind = "Github" => calls[r][i].recv = Github(environ)

\* two requests inside their handlers together, on different repositories,
\* each with a client call made
C6_Witness ==
  \E r, s \in Slots :
    /\ pc[r] = "handler" /\ pc[s] = "handler"
    /\ inbound[r].fields.repo_name # inbound[s].fields.repo_name
    /\ Len(calls[r]) >= 1 /\ Len(calls[s]) >= 1

\* C7: with the credential absent or empty, startup fails before the client
\* handle and the application exist and no request is ever accepted; whenever a
\* request is being handled, the credential is present and the client handle
\* was created from it.
C7_CredentialRequired ==
  /\ ~Truthy(environ) =>
       /\ phase \in {"import", "token_read", "crashed"}
       /\ github_client = Unbound
       /\ app = Unbound
       /\ \A r \in Slots : pc[r] = "idle" /\ inbound[r] = NoRequest
  /\ phase = "crashed" => ~Truthy(environ)
  /\ \A r \in Slots :
       inbound[r] # NoRequest =>
         /\ Truthy(environ)
         /\ GITHUB_TOKEN = environ
         /\ github_client = Github(environ)
         /\ app = FastAPI

\* startup stopped on an empty credential
C7_Witness ==
  /\ phase = "crashed"
  /\ environ = ""
  /\ github_client = Unbound

\* C8: set issue state hands the request's state value, whatever it is, to the
\* issue's edit call unchanged; the value alone never makes the gateway reject
\* the request; and on success the message reports that value.
C8_StatePassedVerbatim ==
  \A r \in Slots :
    (/\ inbound[r] # NoRequest
     /\ inbound[r].method = "POST"
     /\ inbound[r].path = "/github/issue/state"
     /\ RequiredBody(inbound[r].path) \subseteq DOMAIN inbound[r].fields) =>
      /\ Done(r) => resp[r][1].status \in {200, 500}
      /\ Done(r) /\ resp[r][1].status = 500 => FailedCalls(r) # {}
      /\ \A i \in CallsOf(r, "edit") :
           /\ calls[r][i].pos = <<>>
           /\ calls[r][i].kw = [state |-> inbound[r].fields.state]
           /\ calls[r][i].recv.kind = "Issue"
      /\ Succeeded(r) =>
           /\ CallsOf(r, "edit") = {3}
           /\ resp[r][1].body =
                [message |-> "Issue state set to " \o inbound[r].fields.state]

\* an issue's state set to a value that is neither "open" nor "closed"
C8_Witness ==
  \E r \in Slots :
    /\ Succeeded(r)
    /\ HandlerAt(r) = "set_issue_state"
    /\ inbound[r].fields.state = "Closed"
    /\ calls[r][3].kw = [state |-> "Closed"]

\* C9: compare branches asks for the comparison of base and head, in that
\* order, and its successful response carries the comparison's ahead_by and
\* behind_by and the SHAs of the comparison's commits, as many and in the same
\* order.
C9_ComparisonUnmodified ==
  \A r \in Slots :
    Handles(r, "compare_branches") =>
      /\ \A i \in CallsOf(r, "compare") :
           /\ calls[r][i].pos = <<inbound[r].fields.base, inbound[r].fields.head>>
           /\ calls[r][i].kw = <<>>
      /\ Succeeded(r) =>
           LET comparison == calls[r][2].out
               body == resp[r][1].body
           IN /\ calls[r][2].method = "compare"
              /\ DOMAIN body = {"ahead_by", "behind_by", "commits"}
              /\ body.ahead_by = comparison.ahead_by
              /\ body.behind_by = comparison.behind_by
              /\ Len(body.commits) = Len(comparison.commits)
              /\ \A i \in 1..Len(comparison.commits) :
                   body.commits[i] = comparison.commits[i].sha

\* a comparison of "dev" with "feature" that reports a commit twice
C9_Witness ==
  \E r \in Slots :
    /\ Succeeded(r)
    /\ HandlerAt(r) = "compare_branches"
    /\ calls[r][2].pos = <<"dev", "feature">>
    /\ resp[r][1].body.commits = <<"c1", "c1", "c3">>

\* the client methods that change something on the remote side
ActMethods ==
  {"create_git_ref", "create_pull", "create_repo", "create_issue", "create_comment",
   "create_issue_comment", "edit", "merge", "delete", "add_to_collaborators",
   "remove_from_collaborators"}

\* call i of slot r acts on what the call just before it returned: as the
\* object it is invoked on, or (create branch) as the commit it is given, the
\* repository then being the one the request resolved first
ActsOnResolved(r, i) ==
  /\ i >= 2
  /\ calls[r][i - 1].ok
  /\ \/ calls[r][i].recv = calls[r][i - 1].out
     \/ /\ calls[r][i].method = "create_git_ref"
        /\ calls[r][i - 1].method = "get_branch"
        /\ calls[r][i].kw.sha = calls[r][i - 1].out.commit.sha
        /\ calls[r][1].ok
        /\ calls[r][i].recv = calls[r][1].out

\* C10: in every handler, once a client call has failed no further client call
\* is issued (so the act is never invoked after a failed resolve, and nothing
\* is retried), and an act is invoked only on what the successful call just
\* before it, in the same request, returned.
C10_LinearPipeline ==
  \A r \in Slots :
    /\ \A i \in FailedCalls(r) : i = Len(calls[r]) /\ Done(r)
    /\ \A i \in 1..Len(calls[r]) :
         calls[r][i].method \in ActMethods => ActsOnResolved(r, i)
    /\ (Done(r) /\ Routed(r) /\ FailedCalls(r) = {}) => resp[r][1].status = 200

\* a request to delete a branch whose reference lookup failed: no delete
C10_Witness ==
  \E r \in Slots :
    /\ Done(r) /\ Routed(r)
    /\ HandlerAt(r) = "delete_branch"
    /\ FailedCalls(r) = {2}
    /\ CallsOf(r, "delete") = {}

====
